---- MODULE Spec2Model ----
(***************************************************************************)
(* State-machine model of the EPDS service: the submission handler         *)
(* handleSubmitEPDS (cmd/epds-service/main.go), the token cache            *)
(* auth.Authenticator and the FHIR helpers of package fhir.                *)
(*                                                                         *)
(* Strings that the code inspects character by character (form values,     *)
(* ids) are sequences of one-character or atomic pieces; <<>> is "".       *)
(* Time is measured in minutes.  A handler runs from one blocking point    *)
(* (lock acquisition, remote call) to the next in one action.              *)
(***************************************************************************)
EXTENDS Integers, Sequences, FiniteSets, TLC

\* ---------------------------------------------------------------- bounds
NumSubs     == 2    \* handler goroutines the server may run
MaxRequests == 2    \* requests received in one run
MaxTime     == 1    \* last instant of the clock
MaxEntries  == 2    \* entries of a search bundle

\* ------------------------------------------------------ program constants
NumQuestions  == 10
MinAnswer     == 0
MaxAnswer     == 3
HighRiskTotal == 13
HighRiskQ10   == 1
TokenBuffer   == 5
StatusOK                  == 200
StatusCreated             == 201
StatusBadRequest          == 400
StatusMethodNotAllowed    == 405
StatusInternalServerError == 500

Subs      == 1..NumSubs
Questions == 1..NumQuestions
EmptyStr  == <<>>
Space     == " "

VARIABLES
    sub,       \* per handler goroutine: its locals, position, calls, response
    token,     \* Authenticator.token
    expiry,    \* Authenticator.expiry
    readers,   \* goroutines holding Authenticator.mutex shared
    writer,    \* goroutine holding Authenticator.mutex exclusively, 0 if none
    now,       \* the wall clock, as last read
    fetches,   \* token requests sent to the identity service so far
    requests   \* submissions received so far

vars == <<sub, token, expiry, readers, writer, now, fetches, requests>>

\* ------------------------------------------------------------ strings
RECURSIVE TrimLeft(_)
TrimLeft(s) == IF s # <<>> /\ Head(s) = Space THEN TrimLeft(Tail(s)) ELSE s

RECURSIVE TrimRight(_)
TrimRight(s) ==
    IF s # <<>> /\ s[Len(s)] = Space THEN TrimRight(SubSeq(s, 1, Len(s) - 1)) ELSE s

TrimSpace(s) == TrimRight(TrimLeft(s))

DigitChars == <<"0", "1", "2", "3", "4", "5", "6", "7", "8", "9">>

IsDigit(c) == \E d \in 1..10 : DigitChars[d] = c

DigitValue(c) == (CHOOSE d \in 1..10 : DigitChars[d] = c) - 1

RECURSIVE DecimalValue(_)
DecimalValue(s) ==
    IF s = <<>> THEN 0
    ELSE 10 * DecimalValue(SubSeq(s, 1, Len(s) - 1)) + DigitValue(s[Len(s)])

\* strconv.Atoi: an optional sign, then one or more decimal digits.
Atoi(s) ==
    LET signed == s # <<>> /\ s[1] \in {"+", "-"}
        body   == IF signed THEN Tail(s) ELSE s
    IN  IF body = <<>> \/ \E i \in 1..Len(body) : ~IsDigit(body[i])
        THEN [err |-> TRUE, val |-> 0]
        ELSE [err |-> FALSE,
              val |-> IF signed /\ s[1] = "-" THEN 0 - DecimalValue(body)
                      ELSE DecimalValue(body)]

\* ------------------------------------------------------ handler locals
\* A message is its format string and the question it names (0: none).
Msg(text, field) == [text |-> text, field |-> field]

NoMsg == Msg("", 0)

NoResponse == [code |-> 0, status |-> "", message |-> NoMsg,
               observationId |-> EmptyStr, calculatedScore |-> 0]

NoRequest == [method |-> "", parseOk |-> FALSE,
              patientId |-> EmptyStr, patientIdentifierSystem |-> EmptyStr,
              patientIdentifierValue |-> EmptyStr, encounterId |-> EmptyStr,
              appointmentId |-> EmptyStr, q |-> [i \in Questions |-> EmptyStr]]

\* The locals of handleSubmitEPDS before the request is read.
Idle(pc) ==
    [pc |-> pc, req |-> NoRequest,
     patientID |-> EmptyStr, idSystem |-> EmptyStr, idValue |-> EmptyStr,
     encID |-> EmptyStr, apptID |-> EmptyStr,
     totalScore |-> 0, q10Score |-> 0,
     token |-> EmptyStr, observationId |-> EmptyStr,
     flagId |-> EmptyStr, commId |-> EmptyStr, err |-> "",
     calls |-> <<>>, response |-> NoResponse]

\* sendJSONError
sendJSONError(l, message, code) ==
    [l EXCEPT !.pc = "done",
              !.response = [code |-> code, status |-> "error", message |-> message,
                            observationId |-> EmptyStr, calculatedScore |-> 0]]

\* http.Error: a plain-text body, no JSON status.
httpError(l, message, code) ==
    [l EXCEPT !.pc = "done",
              !.response = [code |-> code, status |-> "", message |-> message,
                            observationId |-> EmptyStr, calculatedScore |-> 0]]

\* The success response reporting the Flag id when there is one.
SendSuccessLastId(l) ==
    [l EXCEPT !.pc = "done",
              !.response = [code |-> StatusOK, status |-> "success", message |-> NoMsg,
                            observationId |-> IF l.flagId # EmptyStr THEN l.flagId
                                              ELSE l.observationId,
                            calculatedScore |-> l.totalScore]]

\* Step 7 of the handler: the success response.
SendSuccess(l) ==
    [l EXCEPT !.pc = "done",
              !.response = [code |-> StatusOK, status |-> "success", message |-> NoMsg,
                            observationId |-> l.observationId,
                            calculatedScore |-> l.totalScore]]

\* A request leaving the process towards the identity service or the store.
RemoteCall(op, tok, subject, encounter, hasEncounter, arg, value) ==
    [op |-> op, token |-> tok, subject |-> subject, encounter |-> encounter,
     hasEncounter |-> hasEncounter, arg |-> arg, value |-> value]

\* httpClient.Do: the request is sent and the goroutine blocks at nextpc.
Do(l, call, nextpc) == [l EXCEPT !.calls = Append(@, call), !.pc = nextpc]

\* ------------------------------------------------------ score engine
\* The range test without its upper bound.
InRangeNoUpperBound(qValueInt) == ~(qValueInt < MinAnswer)

\* The range test of the validation loop.
InRange(qValueInt) == ~(qValueInt < MinAnswer \/ qValueInt > MaxAnswer)

\* The validation loop of handleSubmitEPDS, from question i on.
RECURSIVE ParseScores(_, _, _)
\* The loop going on after an invalid answer and reporting the last one.
ParseScoresReportsLast(q, i, epdsScores) ==
    IF i > NumQuestions
    THEN [ok |-> TRUE, message |-> NoMsg, epdsScores |-> epdsScores]
    ELSE LET qValueStr == q[i]
             parsed    == Atoi(qValueStr)
             rest      == ParseScores(q, i + 1, epdsScores)
             failed(text) == IF rest.ok
                             THEN [ok |-> FALSE, message |-> Msg(text, i),
                                   epdsScores |-> epdsScores]
                             ELSE rest
         IN  IF qValueStr = EmptyStr
             THEN failed("Invalid input: %s is required")
             ELSE IF parsed.err
             THEN failed("Invalid input: %s must be an integer")
             ELSE IF ~InRange(parsed.val)
             THEN failed("Invalid input: %s score must be between 0 and 3")
             ELSE ParseScores(q, i + 1, [epdsScores EXCEPT ![i] = parsed.val])

ParseScores(q, i, epdsScores) ==
    IF i > NumQuestions
    THEN [ok |-> TRUE, message |-> NoMsg, epdsScores |-> epdsScores]
    ELSE LET qValueStr == q[i]
             parsed    == Atoi(qValueStr)
         IN  IF qValueStr = EmptyStr
             THEN [ok |-> FALSE,
                   message |-> Msg("Invalid input: %s is required", i),
                   epdsScores |-> epdsScores]
             ELSE IF parsed.err
             THEN [ok |-> FALSE,
                   message |-> Msg("Invalid input: %s must be an integer", i),
                   epdsScores |-> epdsScores]
             ELSE IF ~InRange(parsed.val)
             THEN [ok |-> FALSE,
                   message |-> Msg("Invalid input: %s score must be between 0 and 3", i),
                   epdsScores |-> epdsScores]
             ELSE ParseScores(q, i + 1, [epdsScores EXCEPT ![i] = parsed.val])

RECURSIVE SumScores(_, _)
SumScores(epdsScores, i) ==
    IF i > NumQuestions THEN 0 ELSE epdsScores[i] + SumScores(epdsScores, i + 1)

\* The sum started one question late.
TotalScoreFromSecond(epdsScores) == SumScores(epdsScores, 2)

TotalScore(epdsScores) == SumScores(epdsScores, 1)

\* The total compared with > in place of >=.
IsHighRiskStrict(totalScore, q10Score) ==
    totalScore > HighRiskTotal \/ q10Score >= HighRiskQ10

\* The threshold one point too low.
IsHighRiskFrom12(totalScore, q10Score) ==
    totalScore >= HighRiskTotal - 1 \/ q10Score >= HighRiskQ10

IsHighRisk(totalScore, q10Score) ==
    totalScore >= HighRiskTotal \/ q10Score >= HighRiskQ10

\* ------------------------------------------------------ package fhir
\* What a FHIR helper hands back: an id and a nil error, or "" and an error.
Ok(id)    == [id |-> id, err |-> ""]
Fail(err) == [id |-> EmptyStr, err |-> err]

\* The tail shared by CreateObservation, CreateFlag and CreateCommunication:
\* Do, the status check, the unmarshalling of the body and the id check.
CreatedResult(resp) ==
    IF resp.neterr THEN Fail("execute")
    ELSE IF resp.status # StatusCreated THEN Fail("status")
    ELSE IF ~resp.decodable THEN Fail("parse")
    ELSE IF resp.id = EmptyStr THEN Fail("missing id")
    ELSE Ok(resp.id)

\* CreateObservation without the status check and the id check.
CreateObservationUnchecked(resp) ==
    IF resp.neterr THEN Fail("execute") ELSE Ok(resp.id)

CreateObservationResult(resp)   == CreatedResult(resp)
CreateFlagResult(resp)          == CreatedResult(resp)
CreateCommunicationResult(resp) == CreatedResult(resp)

\* The search without the test of the status code.
SearchResultStatusUnchecked(resp) ==
    IF resp.neterr THEN Fail("search failed")
    ELSE IF ~resp.decodable THEN Fail("bundle decode")
    ELSE IF Len(resp.entry) = 0 THEN Fail("not found")
    ELSE IF ~resp.entry[1].decodable THEN Fail("id parse")
    ELSE IF resp.entry[1].id = EmptyStr THEN Fail("id missing")
    ELSE Ok(resp.entry[1].id)

\* The search taking the first entry that has an id.
SearchResultFirstUsable(resp) ==
    IF resp.neterr THEN Fail("search failed")
    ELSE IF resp.status # StatusOK THEN Fail("status")
    ELSE IF ~resp.decodable THEN Fail("bundle decode")
    ELSE IF Len(resp.entry) = 0 THEN Fail("not found")
    ELSE LET usable == {i \in DOMAIN resp.entry :
                           resp.entry[i].decodable /\ resp.entry[i].id # EmptyStr}
         IN  IF usable # {}
             THEN Ok(resp.entry[CHOOSE i \in usable : \A j \in usable : i <= j].id)
             ELSE IF ~resp.entry[1].decodable THEN Fail("id parse")
             ELSE Fail("id missing")

\* The tail shared by the bundle searches: Do, the status check, the decoding
\* of the bundle and the id of its first entry.
SearchResult(resp) ==
    IF resp.neterr THEN Fail("search failed")
    ELSE IF resp.status # StatusOK THEN Fail("status")
    ELSE IF ~resp.decodable THEN Fail("bundle decode")
    ELSE IF Len(resp.entry) = 0 THEN Fail("not found")
    ELSE IF ~resp.entry[1].decodable THEN Fail("id parse")
    ELSE IF resp.entry[1].id = EmptyStr THEN Fail("id missing")
    ELSE Ok(resp.entry[1].id)

\* The patient search without the test for an empty id.
FindPatientIDByIdentifierNoIdCheck(resp) ==
    IF resp.neterr THEN Fail("search failed")
    ELSE IF resp.status # StatusOK THEN Fail("status")
    ELSE IF ~resp.decodable THEN Fail("bundle decode")
    ELSE IF Len(resp.entry) = 0 THEN Fail("not found")
    ELSE IF ~resp.entry[1].decodable THEN Fail("id parse")
    ELSE Ok(resp.entry[1].id)

FindPatientIDByIdentifierResult(resp) == SearchResult(resp)
FindActiveEncounterIDResult(resp)     == SearchResult(resp)

\* search.go of the repository does not define FindEncounterByAppointment;
\* its contract is the one the specification gives for ResolveByAppointment.
FindEncounterByAppointmentResult(resp) ==
    IF resp.neterr THEN Fail("search failed")
    ELSE IF resp.status # StatusOK THEN Fail("status")
    ELSE IF ~resp.decodable THEN Fail("bundle decode")
    ELSE IF Len(resp.entry) = 0 THEN Fail("not found")
    ELSE IF ~resp.entry[1].decodable \/ resp.entry[1].id = EmptyStr
         THEN Fail("malformed")
    ELSE Ok(resp.entry[1].id)

\* The Flag payload with the encounter reference set unconditionally.
FlagCallAlwaysEncounter(tok, patientID, encounterID, totalScore) ==
    RemoteCall("CreateFlag", tok, patientID, encounterID, TRUE, EmptyStr, totalScore)

\* The Flag payload: the encounter reference is set only for a non-empty id.
FlagCall(tok, patientID, encounterID, totalScore) ==
    RemoteCall("CreateFlag", tok, patientID,
               IF encounterID # EmptyStr THEN encounterID ELSE EmptyStr,
               encounterID # EmptyStr, EmptyStr, totalScore)

ObservationCall(tok, patientID, totalScore) ==
    RemoteCall("CreateObservation", tok, patientID, EmptyStr, FALSE, EmptyStr, totalScore)

\* The Communication request carrying the token the cache holds when it is sent.
CommunicationCallCacheToken(tok, patientID, totalScore) ==
    RemoteCall("CreateCommunication", token, patientID, EmptyStr, FALSE, EmptyStr, totalScore)

CommunicationCall(tok, patientID, totalScore) ==
    RemoteCall("CreateCommunication", tok, patientID, EmptyStr, FALSE, EmptyStr, totalScore)

PatientSearchCall(tok, system, value) ==
    RemoteCall("FindPatientIDByIdentifier", tok, EmptyStr, EmptyStr, FALSE,
               system \o <<"|">> \o value, 0)

AppointmentSearchCall(tok, apptID) ==
    RemoteCall("FindEncounterByAppointment", tok, EmptyStr, EmptyStr, FALSE, apptID, 0)

EncounterSearchCall(tok, patientID) ==
    RemoteCall("FindActiveEncounterID", tok, patientID, EmptyStr, FALSE, EmptyStr, 0)

TokenCall == RemoteCall("fetchNewToken", EmptyStr, EmptyStr, EmptyStr, FALSE, EmptyStr, 0)

\* ------------------------------------------------------ handleSubmitEPDS
\* Step 5: the Observation request is sent.
StartObservation(l) ==
    Do(l, ObservationCall(l.token, l.patientID, l.totalScore), "observation")

\* Step 4 after the token: use patientId, or resolve the identifier pair.
ResolvePatient(l) ==
    IF l.patientID = EmptyStr
    THEN IF l.idSystem = EmptyStr \/ l.idValue = EmptyStr
         THEN sendJSONError(l,
                  Msg("provide patientId OR patientIdentifierSystem+patientIdentifierValue", 0),
                  StatusBadRequest)
         ELSE Do(l, PatientSearchCall(l.token, l.idSystem, l.idValue), "patient")
    ELSE StartObservation(l)

\* The error of GetAuthToken ignored.
TokenReturnedUnchecked(l, tok, failed) ==
    ResolvePatient([l EXCEPT !.token = tok, !.err = ""])

\* GetAuthToken returned to the handler.
TokenReturned(l, tok, failed) ==
    IF failed
    THEN sendJSONError([l EXCEPT !.err = "auth"],
                       Msg("Internal server error - authentication failed", 0),
                       StatusInternalServerError)
    ELSE ResolvePatient([l EXCEPT !.token = tok, !.err = ""])

\* Steps 1 to 3, up to the call of GetAuthToken.
ReadRequest(l, req) ==
    LET l0 == [Idle("start") EXCEPT !.req = req]
        l1 == [l0 EXCEPT !.patientID = TrimSpace(req.patientId),
                         !.idSystem  = TrimSpace(req.patientIdentifierSystem),
                         !.idValue   = TrimSpace(req.patientIdentifierValue),
                         !.encID     = TrimSpace(req.encounterId),
                         !.apptID    = TrimSpace(req.appointmentId)]
        parsed == ParseScores(req.q, 1, [i \in Questions |-> 0])
    IN  IF req.method # "POST"
        THEN httpError(l0, Msg("Method Not Allowed", 0), StatusMethodNotAllowed)
        ELSE IF ~req.parseOk
        THEN sendJSONError(l0, Msg("Failed to parse request body", 0), StatusBadRequest)
        ELSE IF ~parsed.ok
        THEN sendJSONError(l1, parsed.message, StatusBadRequest)
        ELSE [l1 EXCEPT !.totalScore = TotalScore(parsed.epdsScores),
                        !.q10Score   = parsed.epdsScores[10],
                        !.pc         = "rlock"]

\* The Flag and the Communication requests sent together.
StartFlagWithCommunication(l) ==
    Do(Do(l, FlagCall(l.token, l.patientID, l.encID, l.totalScore), "flag"),
       CommunicationCall(l.token, l.patientID, l.totalScore), "flag")

\* The Flag request sent with the encounter id of the form only.
StartFlagFormEncounter(l) ==
    Do(l, FlagCall(l.token, l.patientID, TrimSpace(l.req.encounterId), l.totalScore),
       "flag")

\* The Flag request is sent, with the encounter id at hand.
StartFlag(l) ==
    Do(l, FlagCall(l.token, l.patientID, l.encID, l.totalScore), "flag")

\* The id found by the patient search dropped.
PatientReturnedIdDropped(l, res) ==
    IF res.err # ""
    THEN sendJSONError([l EXCEPT !.err = res.err],
                       Msg("patient not found from identifier", 0), StatusBadRequest)
    ELSE StartObservation([l EXCEPT !.err = ""])

\* FindPatientIDByIdentifier returned.
PatientReturned(l, res) ==
    IF res.err # ""
    THEN sendJSONError([l EXCEPT !.err = res.err],
                       Msg("patient not found from identifier", 0), StatusBadRequest)
    ELSE StartObservation([l EXCEPT !.patientID = res.id, !.err = ""])

\* Step 6 with the appointment lookup tried before looking at encounterId.
ObservationReturnedAppointmentFirst(l, res) ==
    IF res.err # ""
    THEN sendJSONError([l EXCEPT !.err = res.err],
                       Msg("Failed to create FHIR Observation", 0),
                       StatusInternalServerError)
    ELSE LET l1 == [l EXCEPT !.observationId = res.id, !.err = ""]
         IN  IF IsHighRisk(l1.totalScore, l1.q10Score)
             THEN IF l1.apptID # EmptyStr
                  THEN Do(l1, AppointmentSearchCall(l1.token, l1.apptID), "appointment")
                  ELSE IF l1.encID = EmptyStr
                  THEN Do(l1, EncounterSearchCall(l1.token, l1.patientID), "encounter")
                  ELSE StartFlag(l1)
             ELSE SendSuccess(l1)

\* CreateObservation returned: step 5's check and the start of step 6.
ObservationReturned(l, res) ==
    IF res.err # ""
    THEN sendJSONError([l EXCEPT !.err = res.err],
                       Msg("Failed to create FHIR Observation", 0),
                       StatusInternalServerError)
    ELSE LET l1 == [l EXCEPT !.observationId = res.id, !.err = ""]
         IN  IF IsHighRisk(l1.totalScore, l1.q10Score)
             THEN IF l1.encID = EmptyStr
                  THEN IF l1.apptID # EmptyStr
                       THEN Do(l1, AppointmentSearchCall(l1.token, l1.apptID), "appointment")
                       ELSE Do(l1, EncounterSearchCall(l1.token, l1.patientID), "encounter")
                  ELSE StartFlag(l1)
             ELSE SendSuccess(l1)

\* The subject-based lookup made whatever the appointment lookup gave.
AppointmentReturnedAlwaysFallsBack(l, res) ==
    LET l1 == IF res.err = "" THEN [l EXCEPT !.encID = res.id] ELSE l
    IN  Do(l1, EncounterSearchCall(l1.token, l1.patientID), "encounter")

\* FindEncounterByAppointment returned: keep the hit, else fall back.
AppointmentReturned(l, res) ==
    LET l1 == IF res.err = "" THEN [l EXCEPT !.encID = res.id] ELSE l
    IN  IF l1.encID = EmptyStr
        THEN Do(l1, EncounterSearchCall(l1.token, l1.patientID), "encounter")
        ELSE StartFlag(l1)

\* FindActiveEncounterID returned: the Flag is attempted either way.
EncounterReturned(l, res) ==
    StartFlag(IF res.err = "" THEN [l EXCEPT !.encID = res.id] ELSE l)

\* A Flag failure treated as fatal.
FlagReturnedFatal(l, res) ==
    IF res.err # ""
    THEN sendJSONError([l EXCEPT !.err = res.err],
                       Msg("Failed to create FHIR Flag", 0), StatusInternalServerError)
    ELSE Do([l EXCEPT !.flagId = res.id],
            CommunicationCall(l.token, l.patientID, l.totalScore), "communication")

\* The Communication attempted only after a created Flag.
FlagReturnedThenCommunication(l, res) ==
    IF res.err # ""
    THEN SendSuccess(l)
    ELSE Do([l EXCEPT !.flagId = res.id],
            CommunicationCall(l.token, l.patientID, l.totalScore), "communication")

\* The success response written before the Communication is attempted.
FlagReturnedRespondsFirst(l, res) ==
    Do(SendSuccess([l EXCEPT !.flagId = res.id]),
       CommunicationCall(l.token, l.patientID, l.totalScore), "communication")

\* CreateFlag returned: its error is logged, the Communication is attempted.
FlagReturned(l, res) ==
    Do([l EXCEPT !.flagId = res.id],
       CommunicationCall(l.token, l.patientID, l.totalScore), "communication")

\* A failed Communication request sent a second time.
CommunicationReturnedRetryOnce(l, res) ==
    IF res.err # "" /\ l.calls[Len(l.calls) - 1].op # "CreateCommunication"
    THEN Do(l, CommunicationCall(l.token, l.patientID, l.totalScore), "communication")
    ELSE SendSuccess([l EXCEPT !.commId = res.id])

\* CreateCommunication returned: its error is logged, the response is success.
CommunicationReturned(l, res) ==
    SendSuccess([l EXCEPT !.commId = res.id])

\* ------------------------------------------------------ package auth
Token(n) == <<"tok", ToString(n)>>

\* The validity test without the refresh buffer.
TokenValidNoBuffer(tok, exp, t) == tok # EmptyStr /\ t < exp

\* The validity test with the buffer added to the expiry.
TokenValidBufferAdded(tok, exp, t) == tok # EmptyStr /\ t < exp + TokenBuffer

\* The validity test accepting the instant expiry - buffer itself.
TokenValidInclusive(tok, exp, t) == tok # EmptyStr /\ t <= exp - TokenBuffer

\* The validity test of GetAuthToken and of fetchNewToken, at instant t.
TokenValid(tok, exp, t) == tok # EmptyStr /\ t < exp - TokenBuffer

\* The second check without effect: every caller that gets the lock fetches.
DoubleCheckSkipped(tok, exp, t) == FALSE

\* The second check of fetchNewToken, under the exclusive lock.
DoubleCheck(tok, exp, t) == TokenValid(tok, exp, t)

\* The answer of the identity service taken without looking at its token.
FetchResultTokenUnchecked(resp) ==
    IF resp.neterr THEN Fail("execute")
    ELSE IF resp.readerr THEN Fail("read body")
    ELSE IF resp.status # StatusOK THEN Fail("status")
    ELSE IF ~resp.decodable THEN Fail("unmarshal")
    ELSE Ok(resp.access_token)

\* The part of fetchNewToken after Do: read the body, check the status,
\* decode the payload, check the access token.
FetchResult(resp) ==
    IF resp.neterr THEN Fail("execute")
    ELSE IF resp.readerr THEN Fail("read body")
    ELSE IF resp.status # StatusOK THEN Fail("status")
    ELSE IF ~resp.decodable THEN Fail("unmarshal")
    ELSE IF resp.access_token = EmptyStr THEN Fail("empty access token")
    ELSE Ok(resp.access_token)

\* ------------------------------------------------------ the environment
Times == 0..MaxTime

\* A lifetime that never outlasts the buffer, and one that does by a minute.
ExpiresInChoices == {TokenBuffer, TokenBuffer + 1}

AuthResponses(n) ==
    {[neterr |-> TRUE, readerr |-> FALSE, status |-> 0, decodable |-> FALSE,
      access_token |-> EmptyStr, expires_in |-> 0],
     [neterr |-> FALSE, readerr |-> TRUE, status |-> StatusOK, decodable |-> FALSE,
      access_token |-> EmptyStr, expires_in |-> 0],
     [neterr |-> FALSE, readerr |-> FALSE, status |-> StatusOK, decodable |-> FALSE,
      access_token |-> EmptyStr, expires_in |-> 0]}
    \cup [neterr : {FALSE}, readerr : {FALSE}, status : {StatusOK, StatusInternalServerError},
          decodable : {TRUE}, access_token : {EmptyStr, Token(n)},
          expires_in : ExpiresInChoices]

CreateResponses(ids) ==
    {[neterr |-> TRUE, status |-> 0, decodable |-> FALSE, id |-> EmptyStr]}
    \cup [neterr : {FALSE}, status : {StatusOK, StatusCreated, StatusInternalServerError},
          decodable : {FALSE}, id : {EmptyStr}]
    \cup [neterr : {FALSE}, status : {StatusOK, StatusCreated, StatusInternalServerError},
          decodable : {TRUE}, id : {EmptyStr} \cup ids]

BundleEntries(ids) ==
    {[decodable |-> FALSE, id |-> EmptyStr]}
    \cup [decodable : {TRUE}, id : {EmptyStr} \cup ids]

Bundles(ids) ==
    UNION {[1..n -> BundleEntries(ids)] : n \in 0..MaxEntries}

SearchResponses(ids) ==
    {[neterr |-> TRUE, status |-> 0, decodable |-> FALSE, entry |-> <<>>]}
    \cup [neterr : {FALSE}, status : {StatusOK, StatusInternalServerError},
          decodable : {FALSE}, entry : {<<>>}]
    \cup [neterr : {FALSE}, status : {StatusOK, StatusInternalServerError},
          decodable : {TRUE}, entry : Bundles(ids)]

PatientIds       == {<<"p1">>, <<"p2">>}
EncounterIds     == {<<"e1">>, <<"e2">>}
ObservationIds   == {<<"o1">>}
FlagIds          == {<<"f1">>}
CommunicationIds == {<<"c1">>}

\* Raw values of an answer field.
ValidAnswers   == {<<"0">>, <<"1">>, <<"2">>, <<"3">>}
InvalidAnswers == {EmptyStr, <<"x">>, <<"1", "x">>, <<"-", "1">>, <<"4">>, <<"1", "0">>}
RawAnswers     == ValidAnswers \cup InvalidAnswers \cup {<<"+", "1">>}

\* Answers a to the first k questions, b to the others up to the ninth, w to
\* the tenth.
Form(k, a, b, w) ==
    [i \in Questions |-> IF i = NumQuestions THEN w ELSE IF i <= k THEN a ELSE b]

ScoreForms ==
    {Form(k, a, b, w) : k \in 0..(NumQuestions - 1), a \in ValidAnswers,
                        b \in ValidAnswers, w \in RawAnswers}

\* All answers 3 except an invalid one at j and a second one at j2.
InvalidForms ==
    {[i \in Questions |-> IF i = j THEN v ELSE IF i = j2 THEN v2 ELSE <<"3">>] :
        j \in Questions, j2 \in Questions, v \in InvalidAnswers,
        v2 \in {EmptyStr, <<"x">>, <<"4">>, <<"3">>}}

LowForm       == Form(4, <<"3">>, <<"0">>, <<"0">>)    \* total 12, q10 0
HighTotalForm == Form(4, <<"2">>, <<"1">>, <<"0">>)    \* total 13, q10 0
HighQ10Form   == Form(1, <<"3">>, <<"1">>, <<"1">>)    \* total 12, q10 1

Request(fields, q) ==
    [method |-> "POST", parseOk |-> TRUE,
     patientId |-> fields[1], patientIdentifierSystem |-> fields[2],
     patientIdentifierValue |-> fields[3], encounterId |-> fields[4],
     appointmentId |-> fields[5], q |-> q]

\* Every field absent or present, and requests with a blank field.
FieldChoices ==
    ({EmptyStr, <<"p0">>} \X {EmptyStr, <<"sys">>} \X {EmptyStr, <<"mrn", Space>>}
        \X {EmptyStr, <<Space, "e0">>} \X {EmptyStr, <<"a0">>})
    \cup {<<<<Space>>, <<"sys">>, <<Space>>, EmptyStr, EmptyStr>>,
          <<<<Space>>, <<Space>>, <<"mrn">>, EmptyStr, EmptyStr>>,
          <<<<Space, "p0", Space>>, EmptyStr, EmptyStr, <<Space>>, <<Space>>>>}

DirectFields == <<<<"p0">>, EmptyStr, EmptyStr, <<"e0">>, EmptyStr>>

Requests ==
    {Request(f, q) : f \in FieldChoices, q \in {LowForm, HighTotalForm, HighQ10Form}}
    \cup {Request(DirectFields, q) : q \in ScoreForms \cup InvalidForms}
    \cup {Request(f, Form(0, <<"0">>, <<"0">>, <<"x">>)) : f \in FieldChoices}
    \cup {[Request(DirectFields, LowForm) EXCEPT !.method = "GET"],
          [Request(DirectFields, LowForm) EXCEPT !.parseOk = FALSE]}

\* ------------------------------------------------------ actions
Later == {t \in Times : t >= now}

\* A request arrives and the handler runs up to GetAuthToken.
Receive(s) ==
    /\ sub[s].pc = "idle"
    /\ requests < MaxRequests
    /\ requests' = requests + 1
    /\ \E req \in Requests : sub' = [sub EXCEPT ![s] = ReadRequest(sub[s], req)]
    /\ UNCHANGED <<token, expiry, readers, writer, now, fetches>>

\* The handler has written its response and returns: its locals are gone and
\* the server is ready for the next request.
Return(s) ==
    /\ sub[s].pc = "done"
    /\ sub' = [sub EXCEPT ![s] = Idle("idle")]
    /\ UNCHANGED <<token, expiry, readers, writer, now, fetches, requests>>

\* GetAuthToken: a.mutex.RLock()
RLock(s) ==
    /\ sub[s].pc = "rlock"
    /\ writer = 0
    /\ readers' = readers \cup {s}
    /\ sub' = [sub EXCEPT ![s].pc = "check"]
    /\ UNCHANGED <<token, expiry, writer, now, fetches, requests>>

\* fetchNewToken called with the shared lock still held.
GetAuthTokenKeepsRLock(s) ==
    /\ sub[s].pc = "check"
    /\ \E t \in Later :
        /\ now' = t
        /\ IF TokenValid(token, expiry, t)
           THEN /\ sub' = [sub EXCEPT ![s] = TokenReturned(sub[s], token, FALSE)]
                /\ readers' = readers \ {s}
           ELSE /\ sub' = [sub EXCEPT ![s].pc = "lock"]
                /\ UNCHANGED readers
    /\ UNCHANGED <<token, expiry, writer, fetches, requests>>

\* GetAuthToken: the check under the shared lock at instant t, RUnlock, and
\* the return of the cached token or the call of fetchNewToken.
GetAuthToken(s) ==
    /\ sub[s].pc = "check"
    /\ readers' = readers \ {s}
    /\ \E t \in Later :
        /\ now' = t
        /\ sub' = [sub EXCEPT ![s] = IF TokenValid(token, expiry, t)
                                     THEN TokenReturned(sub[s], token, FALSE)
                                     ELSE [sub[s] EXCEPT !.pc = "lock"]]
    /\ UNCHANGED <<token, expiry, writer, fetches, requests>>

\* The lock of fetchNewToken taken without waiting for its holder.
LockNotExclusive(s) ==
    /\ sub[s].pc = "lock"
    /\ readers = {}
    /\ writer' = s
    /\ sub' = [sub EXCEPT ![s].pc = "recheck"]
    /\ UNCHANGED <<token, expiry, readers, now, fetches, requests>>

\* fetchNewToken: a.mutex.Lock()
Lock(s) ==
    /\ sub[s].pc = "lock"
    /\ writer = 0
    /\ readers = {}
    /\ writer' = s
    /\ sub' = [sub EXCEPT ![s].pc = "recheck"]
    /\ UNCHANGED <<token, expiry, readers, now, fetches, requests>>

\* fetchNewToken: the second check under the exclusive lock at instant t; the
\* token request is sent if the cache is still not valid.
fetchNewToken(s) ==
    /\ sub[s].pc = "recheck"
    /\ \E t \in Later :
        /\ now' = t
        /\ IF DoubleCheck(token, expiry, t)
           THEN /\ writer' = 0
                /\ sub' = [sub EXCEPT ![s] = TokenReturned(sub[s], token, FALSE)]
                /\ UNCHANGED fetches
           ELSE /\ fetches' = fetches + 1
                /\ sub' = [sub EXCEPT ![s] = Do(sub[s], TokenCall, "fetch")]
                /\ UNCHANGED writer
    /\ UNCHANGED <<token, expiry, readers, requests>>

\* The cache emptied when the token request fails.
FetchReturnedClearsCache(s) ==
    /\ sub[s].pc = "fetch"
    /\ writer' = 0
    /\ \E resp \in AuthResponses(fetches), t \in Later :
        LET res == FetchResult(resp)
        IN  /\ now' = t
            /\ IF res.err # ""
               THEN /\ sub' = [sub EXCEPT ![s] = TokenReturned(sub[s], EmptyStr, TRUE)]
                    /\ token' = EmptyStr
                    /\ expiry' = 0
               ELSE /\ token' = res.id
                    /\ expiry' = t + resp.expires_in
                    /\ sub' = [sub EXCEPT ![s] = TokenReturned(sub[s], res.id, FALSE)]
    /\ UNCHANGED <<readers, fetches, requests>>

\* fetchNewToken: the identity service answered at instant t; store the
\* token and its expiry, unlock, return.
FetchReturned(s) ==
    /\ sub[s].pc = "fetch"
    /\ writer' = 0
    /\ \E resp \in AuthResponses(fetches), t \in Later :
        LET res == FetchResult(resp)
        IN  /\ now' = t
            /\ IF res.err # ""
               THEN /\ sub' = [sub EXCEPT ![s] = TokenReturned(sub[s], EmptyStr, TRUE)]
                    /\ UNCHANGED <<token, expiry>>
               ELSE /\ token' = res.id
                    /\ expiry' = t + resp.expires_in
                    /\ sub' = [sub EXCEPT ![s] = TokenReturned(sub[s], res.id, FALSE)]
    /\ UNCHANGED <<readers, fetches, requests>>

PatientSearchDone(s) ==
    /\ sub[s].pc = "patient"
    /\ \E resp \in SearchResponses(PatientIds) :
        sub' = [sub EXCEPT ![s] =
                   PatientReturned(sub[s], FindPatientIDByIdentifierResult(resp))]
    /\ UNCHANGED <<token, expiry, readers, writer, now, fetches, requests>>

\* The total kept in a field of the handler object that all requests share.
ObservationDoneSharedTotal(s) ==
    /\ sub[s].pc = "observation"
    /\ \E resp \in CreateResponses(ObservationIds) :
        sub' = [t \in Subs |->
                   IF t = s
                   THEN ObservationReturned(sub[s], CreateObservationResult(resp))
                   ELSE [sub[t] EXCEPT !.totalScore = sub[s].totalScore]]
    /\ UNCHANGED <<token, expiry, readers, writer, now, fetches, requests>>

ObservationDone(s) ==
    /\ sub[s].pc = "observation"
    /\ \E resp \in CreateResponses(ObservationIds) :
        sub' = [sub EXCEPT ![s] =
                   ObservationReturned(sub[s], CreateObservationResult(resp))]
    /\ UNCHANGED <<token, expiry, readers, writer, now, fetches, requests>>

AppointmentSearchDone(s) ==
    /\ sub[s].pc = "appointment"
    /\ \E resp \in SearchResponses(EncounterIds) :
        sub' = [sub EXCEPT ![s] =
                   AppointmentReturned(sub[s], FindEncounterByAppointmentResult(resp))]
    /\ UNCHANGED <<token, expiry, readers, writer, now, fetches, requests>>

EncounterSearchDone(s) ==
    /\ sub[s].pc = "encounter"
    /\ \E resp \in SearchResponses(EncounterIds) :
        sub' = [sub EXCEPT ![s] =
                   EncounterReturned(sub[s], FindActiveEncounterIDResult(resp))]
    /\ UNCHANGED <<token, expiry, readers, writer, now, fetches, requests>>

FlagDone(s) ==
    /\ sub[s].pc = "flag"
    /\ \E resp \in CreateResponses(FlagIds) :
        sub' = [sub EXCEPT ![s] = FlagReturned(sub[s], CreateFlagResult(resp))]
    /\ UNCHANGED <<token, expiry, readers, writer, now, fetches, requests>>

CommunicationDone(s) ==
    /\ sub[s].pc = "communication"
    /\ \E resp \in CreateResponses(CommunicationIds) :
        sub' = [sub EXCEPT ![s] =
                   CommunicationReturned(sub[s], CreateCommunicationResult(resp))]
    /\ UNCHANGED <<token, expiry, readers, writer, now, fetches, requests>>

\* ------------------------------------------------------ specification
\* After NewAuthenticator: no token, the zero expiry, the mutex free.  One
\* handler goroutine serves the requests one after the other.
Init ==
    /\ sub = [s \in Subs |-> IF s = 1 THEN Idle("idle") ELSE Idle("off")]
    /\ token = EmptyStr
    /\ expiry = 0
    /\ readers = {}
    /\ writer = 0
    /\ now = 0
    /\ fetches = 0
    /\ requests = 0

Next ==
    \E s \in Subs :
        \/ Receive(s)
        \/ Return(s)
        \/ RLock(s)
        \/ GetAuthToken(s)
        \/ Lock(s)
        \/ fetchNewToken(s)
        \/ FetchReturned(s)
        \/ PatientSearchDone(s)
        \/ ObservationDone(s)
        \/ AppointmentSearchDone(s)
        \/ EncounterSearchDone(s)
        \/ FlagDone(s)
        \/ CommunicationDone(s)

Spec == Init /\ [][Next]_vars

\* The statuses an Encounter of the record store can have here.
EncounterStatuses == {"planned", "arrived", "in-progress", "finished"}

\* The status parameter of the query of FindActiveEncounterID.
ActiveStatusQuery == {"arrived", "in-progress"}

\* The encounters of the subject in the record store: none or one.
Stores ==
    {<<>>} \cup {<<[id |-> <<"e1">>, status |-> st]>> : st \in EncounterStatuses}

IsQueried(e) == e.status \in ActiveStatusQuery

\* The answer of a record store that serves the query as FHIR search defines
\* it: the encounters of the subject with one of the queried statuses.
Truthful(store) ==
    LET hits == SelectSeq(store, IsQueried)
    IN  [neterr |-> FALSE, status |-> StatusOK, decodable |-> TRUE,
         entry |-> [i \in DOMAIN hits |-> [decodable |-> TRUE, id |-> hits[i].id]]]

Pending == [id |-> EmptyStr, err |-> "pending"]

\* A resolver of search.go called on its own: the request is out and the
\* answer of the record store is on its way.
Searches ==
    {[pc |-> "search", op |-> "FindPatientIDByIdentifier", store |-> <<>>,
      reply |-> r, result |-> Pending] : r \in SearchResponses(PatientIds)}
    \cup {[pc |-> "search", op |-> "FindActiveEncounterID", store |-> st,
           reply |-> r, result |-> Pending] :
               st \in Stores, r \in SearchResponses(EncounterIds)}

FindPatientIDByIdentifier(s) ==
    /\ sub[s].pc = "search"
    /\ sub[s].op = "FindPatientIDByIdentifier"
    /\ sub' = [sub EXCEPT ![s].result = FindPatientIDByIdentifierResult(sub[s].reply),
                          ![s].pc = "returned"]
    /\ UNCHANGED <<token, expiry, readers, writer, now, fetches, requests>>

FindActiveEncounterID(s) ==
    /\ sub[s].pc = "search"
    /\ sub[s].op = "FindActiveEncounterID"
    /\ sub' = [sub EXCEPT ![s].result = FindActiveEncounterIDResult(sub[s].reply),
                          ![s].pc = "returned"]
    /\ UNCHANGED <<token, expiry, readers, writer, now, fetches, requests>>

InitSearch ==
    /\ \E l \in Searches : sub = [s \in Subs |-> IF s = 1 THEN l ELSE Idle("off")]
    /\ token = EmptyStr /\ expiry = 0 /\ readers = {} /\ writer = 0
    /\ now = 0 /\ fetches = 0 /\ requests = 0

NextSearch ==
    \E s \in Subs : FindPatientIDByIdentifier(s) \/ FindActiveEncounterID(s)

SpecSearch == InitSearch /\ [][NextSearch]_vars

\* Concurrent submissions: every handler goroutine has read a valid request
\* and stands at its call of GetAuthToken, the cache being as NewAuthenticator
\* left it.
\* The first submission is high risk, the others are not; their totals differ.
ConcRequest(s) ==
    Request(DirectFields, IF s = 1 THEN HighTotalForm ELSE LowForm)

InitConc ==
    /\ sub = [s \in Subs |-> ReadRequest(Idle("idle"), ConcRequest(s))]
    /\ token = EmptyStr
    /\ expiry = 0
    /\ readers = {}
    /\ writer = 0
    /\ now = 0
    /\ fetches = 0
    /\ requests = NumSubs

NextConc ==
    \E s \in Subs :
        \/ RLock(s)
        \/ GetAuthToken(s)
        \/ Lock(s)
        \/ fetchNewToken(s)
        \/ FetchReturned(s)
        \/ ObservationDone(s)
        \/ FlagDone(s)
        \/ CommunicationDone(s)

SpecConc == InitConc /\ [][NextConc]_vars

\* A goroutine that can run is run, the mutex hands the lock to a waiter
\* once it is free, and the identity service answers every token request.
AuthStep(s) ==
    RLock(s) \/ GetAuthToken(s) \/ Lock(s) \/ fetchNewToken(s) \/ FetchReturned(s)

\* The callers of GetAuthToken alone, up to its return to each of them.
NextAuth == \E s \in Subs : AuthStep(s)

SpecAuth == InitConc /\ [][NextAuth]_vars /\ \A s \in Subs : WF_vars(AuthStep(s))

\* The validation of one request: the handler up to its call of GetAuthToken
\* or to its error response.
NextValidate == \E s \in Subs : Receive(s)

SpecValidate == Init /\ [][NextValidate]_vars

\* One submission from the request read to the response written: the steps
\* of its handler, every remote call of which returns.
HandlerStep(s) ==
    \/ AuthStep(s)
    \/ PatientSearchDone(s)
    \/ ObservationDone(s)
    \/ AppointmentSearchDone(s)
    \/ EncounterSearchDone(s)
    \/ FlagDone(s)
    \/ CommunicationDone(s)

InitOne ==
    /\ \E req \in Requests :
           sub = [s \in Subs |-> IF s = 1 THEN ReadRequest(Idle("idle"), req)
                                 ELSE Idle("off")]
    /\ token = EmptyStr /\ expiry = 0 /\ readers = {} /\ writer = 0
    /\ now = 0 /\ fetches = 0 /\ requests = 1

NextOne == \E s \in Subs : HandlerStep(s)

SpecOne == InitOne /\ [][NextOne]_vars /\ \A s \in Subs : WF_vars(HandlerStep(s))

\* ====================================================== properties
\* The vocabulary of the claims, independent of the handler's own parsing.
IntegerAnswer == (<<"0">> :> 0) @@ (<<"1">> :> 1) @@ (<<"2">> :> 2) @@ (<<"3">> :> 3)
                 @@ (<<"+", "1">> :> 1)

GoodAnswer(v) == v \in DOMAIN IntegerAnswer

Submitted(l) == l.req.method = "POST" /\ l.req.parseOk

GoodAnswers(l) == Submitted(l) /\ \A i \in Questions : GoodAnswer(l.req.q[i])

AnswerSum(q) ==
    IntegerAnswer[q[1]] + IntegerAnswer[q[2]] + IntegerAnswer[q[3]] + IntegerAnswer[q[4]]
    + IntegerAnswer[q[5]] + IntegerAnswer[q[6]] + IntegerAnswer[q[7]] + IntegerAnswer[q[8]]
    + IntegerAnswer[q[9]] + IntegerAnswer[q[10]]

HighRiskAnswers(q) == AnswerSum(q) >= 13 \/ IntegerAnswer[q[10]] >= 1

Supplied(v) == \E i \in DOMAIN v : v[i] # Space

NotSpace(c) == c # Space

\* The id a form field carries, padding apart.
SuppliedId(v) == SelectSeq(v, NotSpace)

Ops(l) == {l.calls[i].op : i \in DOMAIN l.calls}

CallsOf(l, op) == {i \in DOMAIN l.calls : l.calls[i].op = op}

LookupOps == {"FindEncounterByAppointment", "FindActiveEncounterID"}

AlertOps == {"CreateFlag", "CreateCommunication"}

StoreOps == {"FindPatientIDByIdentifier", "CreateObservation"} \cup LookupOps \cup AlertOps

IsError(l, code) == l.pc = "done" /\ l.response.code = code /\ l.response.status = "error"

IsSuccess(l) ==
    l.pc = "done" /\ l.response.code = 200 /\ l.response.status = "success"

C2_TotalIsSum ==
    \A s \in Subs :
        LET l == sub[s]
        IN  GoodAnswers(l)
            => /\ l.totalScore = AnswerSum(l.req.q)
               /\ l.totalScore \in 0..30
               /\ \A i \in CallsOf(l, "CreateObservation") :
                      l.calls[i].value = AnswerSum(l.req.q)
               /\ IsSuccess(l) => l.response.calculatedScore = AnswerSum(l.req.q)

\* A success response reporting 19 for answers 2,2,2,2,2,2,2,1,1,3.
C2_Witness ==
    \E s \in Subs :
        /\ IsSuccess(sub[s])
        /\ sub[s].req.q = Form(7, <<"2">>, <<"1">>, <<"3">>)
        /\ sub[s].response.calculatedScore = 19
        /\ CallsOf(sub[s], "CreateObservation") # {}

\* C3: a valid submission enters the Flag/Communication branch exactly when
\* its total is at least 13 or its tenth answer at least 1.
C3_HighRiskIff ==
    \A s \in Subs :
        LET l == sub[s]
        IN  GoodAnswers(l)
            => /\ (Ops(l) \cap (LookupOps \cup AlertOps) # {}) => HighRiskAnswers(l.req.q)
               /\ IsSuccess(l) => ("CreateFlag" \in Ops(l) /\ "CreateCommunication" \in Ops(l)
                                    <=> HighRiskAnswers(l.req.q))

\* Total 13 with a tenth answer of 0 went through the Flag branch.
C3_Witness ==
    \E s \in Subs :
        /\ IsSuccess(sub[s])
        /\ AnswerSum(sub[s].req.q) = 13
        /\ sub[s].req.q[10] = <<"0">>
        /\ "CreateFlag" \in Ops(sub[s])

CreateFailures == {"execute", "status", "parse", "missing id"}

ObservationFailed(l) ==
    l.pc = "done" /\ "CreateObservation" \in Ops(l) /\ l.observationId = EmptyStr

\* C4: when the creation of the Observation fails (transport error, status
\* other than 201, undecodable or id-less payload) the response is a 500 error
\* and no encounter lookup, Flag or Communication call was attempted.
C4_ObservationFailureIsFatal ==
    \A s \in Subs :
        LET l == sub[s]
        IN  ObservationFailed(l)
            => /\ IsError(l, 500)
               /\ l.err \in CreateFailures
               /\ Ops(l) \cap (LookupOps \cup AlertOps) = {}

\* A high-risk submission whose Observation came back 201 without an id.
C4_Witness ==
    \E s \in Subs :
        /\ ObservationFailed(sub[s])
        /\ sub[s].err = "missing id"
        /\ GoodAnswers(sub[s])
        /\ HighRiskAnswers(sub[s].req.q)

\* C5: once the Observation is created the submission can only go on to the
\* lookups, the Flag and the Communication and end with the 200 success
\* response, whatever these calls return; it issues nothing but searches
\* and creations.
C5_SuccessAfterObservation ==
    \A s \in Subs :
        LET l == sub[s]
        IN  l.observationId # EmptyStr
            => /\ l.pc \in {"appointment", "encounter", "flag", "communication", "done"}
               /\ l.pc = "done" => IsSuccess(l) /\ l.response.observationId = l.observationId
               /\ Ops(l) \subseteq StoreOps \cup {"fetchNewToken"}

\* Success after both lookups, the Flag and the Communication all failed.
C5_Witness ==
    \E s \in Subs :
        /\ IsSuccess(sub[s])
        /\ LookupOps \cup AlertOps \subseteq Ops(sub[s])
        /\ sub[s].encID = EmptyStr
        /\ sub[s].flagId = EmptyStr
        /\ sub[s].commId = EmptyStr

\* The case of C6: high risk, a patientId, no encounterId, no appointmentId,
\* and the subject-based lookup has returned without an encounter.
SubjectLookupFailed(l) ==
    /\ GoodAnswers(l)
    /\ HighRiskAnswers(l.req.q)
    /\ Supplied(l.req.patientId)
    /\ ~Supplied(l.req.encounterId)
    /\ ~Supplied(l.req.appointmentId)
    /\ "FindActiveEncounterID" \in Ops(l)
    /\ l.pc # "encounter"
    /\ l.encID = EmptyStr

\* C6: in that case the Observation exists, the Flag is attempted without an
\* encounter reference, and the response is success.
C6_FlagWithoutEncounter ==
    \A s \in Subs :
        LET l == sub[s]
        IN  SubjectLookupFailed(l)
            => /\ l.observationId # EmptyStr
               /\ CallsOf(l, "CreateFlag") # {}
               /\ \A i \in CallsOf(l, "CreateFlag") :
                      ~l.calls[i].hasEncounter /\ l.calls[i].encounter = EmptyStr
               /\ l.pc = "done" => IsSuccess(l)

C6_Witness ==
    \E s \in Subs : SubjectLookupFailed(sub[s]) /\ IsSuccess(sub[s])

\* C7: with an explicit encounterId no encounter lookup is called, even if
\* an appointmentId is supplied too, and the Flag references that encounter.
C7_ExplicitEncounterSkipsCascade ==
    \A s \in Subs :
        LET l == sub[s]
        IN  (Submitted(l) /\ Supplied(l.req.encounterId))
            => /\ Ops(l) \cap LookupOps = {}
               /\ \A i \in CallsOf(l, "CreateFlag") :
                      /\ l.calls[i].hasEncounter
                      /\ l.calls[i].encounter = SuppliedId(l.req.encounterId)

\* A Flag was sent for a request with both an encounterId and an
\* appointmentId.
C7_Witness ==
    \E s \in Subs :
        /\ Supplied(sub[s].req.encounterId)
        /\ Supplied(sub[s].req.appointmentId)
        /\ "CreateFlag" \in Ops(sub[s])
        /\ IsSuccess(sub[s])

\* The case of C8: a patientId and answers of low risk.
LowRiskSubmission(l) ==
    GoodAnswers(l) /\ Supplied(l.req.patientId) /\ ~HighRiskAnswers(l.req.q)

\* C8: a low-risk submission with a patientId makes no Flag, Communication
\* or lookup call; with a token it sends the Observation, and once the
\* Observation is created the response is success.
C8_LowRiskObservationOnly ==
    \A s \in Subs :
        LET l == sub[s]
        IN  LowRiskSubmission(l)
            => /\ Ops(l) \subseteq {"fetchNewToken", "CreateObservation"}
               /\ l.token # EmptyStr => "CreateObservation" \in Ops(l)
               /\ l.observationId # EmptyStr => IsSuccess(l)
               /\ IsSuccess(l) => l.observationId # EmptyStr

\* Total 12 with a tenth answer of 0 ended in success.
C8_Witness ==
    \E s \in Subs :
        /\ LowRiskSubmission(sub[s])
        /\ AnswerSum(sub[s].req.q) = 12
        /\ IsSuccess(sub[s])

\* The case of C9 and C10: neither a patientId nor a complete identifier pair.
NoPatientInformation(l) ==
    /\ Submitted(l)
    /\ ~Supplied(l.req.patientId)
    /\ ~(Supplied(l.req.patientIdentifierSystem) /\ Supplied(l.req.patientIdentifierValue))

\* C9: a submission with valid answers but no patient information ends with
\* the 400 error about the missing patient information.
C9_MissingPatientIs400 ==
    \A s \in Subs :
        LET l == sub[s]
        IN  (GoodAnswers(l) /\ NoPatientInformation(l) /\ l.pc = "done")
            => /\ IsError(l, 400)
               /\ l.response.message.text =
                      "provide patientId OR patientIdentifierSystem+patientIdentifierValue"

\* C10: a submission with no patient information makes no remote call, not
\* even a token fetch.
C10_MissingPatientNoRemoteCall ==
    \A s \in Subs : NoPatientInformation(sub[s]) => sub[s].calls = <<>>

\* ------------------------------------------------------ credential cache
FetchCount(l) == Cardinality(CallsOf(l, "fetchNewToken"))

\* The cached token has more than the lead time of 5 minutes left at t.
CacheFresh(t) == token # EmptyStr /\ expiry - t > 5

\* s leaves the check under the shared lock / under the exclusive lock.
LeavesCheck(s)   == sub[s].pc = "check" /\ sub'[s].pc # "check"
LeavesRecheck(s) == sub[s].pc = "recheck" /\ sub'[s].pc # "recheck"

\* C11 as stated: the callers that stand in GetAuthToken together while the
\* cache is empty cause one fetch in all and hold the same token.
C11_ExactlyOneFetch ==
    /\ fetches <= 1
    /\ \A s1, s2 \in Subs :
           (sub[s1].token # EmptyStr /\ sub[s2].token # EmptyStr)
           => sub[s1].token = sub[s2].token

\* C11 amended: at most one fetch is in flight, its sender holding the
\* exclusive lock; a caller whose re-check under the lock finds the cached
\* token valid returns it without a fetch, and only a caller whose re-check
\* finds it not valid sends one; as long as one fetch was sent all callers
\* hold the same token.
C11_OneFetchWhileValid ==
    /\ [](/\ Cardinality({s \in Subs : sub[s].pc = "fetch"}) <= 1
          /\ \A s \in Subs : sub[s].pc = "fetch" => writer = s
          /\ fetches <= 1
             => \A s1, s2 \in Subs :
                    (sub[s1].token # EmptyStr /\ sub[s2].token # EmptyStr)
                    => sub[s1].token = sub[s2].token)
    /\ [][\A s \in Subs :
            LeavesRecheck(s)
            => IF CacheFresh(now')
               THEN sub'[s].token = token /\ fetches' = fetches
                    /\ FetchCount(sub'[s]) = 0
               ELSE fetches' = fetches + 1 /\ FetchCount(sub'[s]) = 1]_vars

\* Two callers hold the token of the only fetch, one of them without having
\* fetched.
C11_Witness ==
    \E s1, s2 \in Subs :
        /\ s1 # s2
        /\ fetches = 1
        /\ sub[s1].token = Token(1)
        /\ sub[s2].token = Token(1)
        /\ FetchCount(sub[s1]) = 1
        /\ FetchCount(sub[s2]) = 0

\* C12: a cached token with more than the lead time left is returned
\* without a token request; with less left the caller goes on to
\* fetchNewToken and sends exactly one token request.
C12_CachedOrOneFetch ==
    /\ [](\A s \in Subs :
            /\ FetchCount(sub[s]) <= 1
            /\ sub[s].pc \in {"check", "lock", "recheck"} => FetchCount(sub[s]) = 0
            /\ sub[s].pc = "fetch" => FetchCount(sub[s]) = 1)
    /\ [][\A s \in Subs :
            /\ LeavesCheck(s)
               => IF CacheFresh(now')
                  THEN /\ sub'[s].token = token
                       /\ fetches' = fetches
                       /\ sub'[s].pc \notin {"lock", "recheck", "fetch"}
                  ELSE sub'[s].pc = "lock"
            /\ LeavesRecheck(s)
               => sub'[s].pc = "fetch" /\ fetches' = fetches + 1]_vars

\* A second submission was served from the cache.
C12_Witness ==
    \E s \in Subs :
        /\ requests = 2
        /\ fetches = 1
        /\ sub[s].token = Token(1)
        /\ FetchCount(sub[s]) = 0
        /\ sub[s].pc = "observation"

\* C13: a caller obtains a token only from the cache while the token has at
\* least the lead time left, or from the fetch it has just made itself.
C13_ReturnedTokenFreshOrFetched ==
    [][\A s \in Subs :
         (sub[s].token = EmptyStr /\ sub'[s].token # EmptyStr)
         => \/ /\ sub[s].pc \in {"check", "recheck"}
               /\ sub'[s].token = token
               /\ token # EmptyStr
               /\ expiry - now' >= 5
               /\ UNCHANGED <<token, expiry, fetches>>
            \/ /\ sub[s].pc = "fetch"
               /\ FetchCount(sub[s]) = 1
               /\ sub'[s].token = token'
               /\ token' = Token(fetches)]_vars

\* A caller holds the cached token, fetched by another and still fresh.
C13_Witness ==
    \E s \in Subs :
        /\ sub[s].token = token
        /\ token # EmptyStr
        /\ FetchCount(sub[s]) = 0
        /\ expiry - now > 5
        /\ writer = 0

UpstreamFailures == {"status", "bundle decode", "id parse", "id missing", "parse", "missing id"}

\* C14: an error response is 400 for an input, validation or not-found
\* failure and 500 for a credential failure or an upstream failure of the
\* record store (status or malformed payload), the patient search included.
C14_ErrorCodeByClass ==
    \A s \in Subs :
        LET l == sub[s]
        IN  (l.pc = "done" /\ l.response.status = "error")
            => /\ l.err \in {"", "not found"} => l.response.code = 400
               /\ l.err \in {"auth"} \cup UpstreamFailures => l.response.code = 500

\* GetAuthToken returned an error to the handler.
AuthFailed(l) == l.pc = "done" /\ FetchCount(l) = 1 /\ l.token = EmptyStr

\* C15: a failed credential acquisition ends the submission with the generic
\* 500 response and without any call of the record store.
C15_AuthFailureIsFatal ==
    \A s \in Subs :
        LET l == sub[s]
        IN  AuthFailed(l)
            => /\ IsError(l, 500)
               /\ l.response.message.text = "Internal server error - authentication failed"
               /\ Ops(l) \cap StoreOps = {}

\* The token request of a high-risk submission with a patientId failed.
C15_Witness ==
    \E s \in Subs :
        /\ AuthFailed(sub[s])
        /\ GoodAnswers(sub[s])
        /\ HighRiskAnswers(sub[s].req.q)
        /\ Supplied(sub[s].req.patientId)
        /\ sub[s].response.code = 500

\* ------------------------------------------------------ subject and alerts
CreateOps == {"CreateObservation", "CreateFlag", "CreateCommunication"}

\* The requests that name the patient.
SubjectOps == CreateOps \cup {"FindActiveEncounterID"}

\* The patient search of l has returned.
PatientSearched(l) == "FindPatientIDByIdentifier" \in Ops(l) /\ l.pc # "patient"

\* C16: a supplied patientId is the subject of every request and no patient
\* search is made, identifier pair or not; without it a complete pair is
\* searched once the token is there, the id found is the subject of every
\* request, and a failed search ends the submission with an error and
\* without any record created.
C16_SubjectResolution ==
    \A s \in Subs :
        LET l == sub[s]
        IN  /\ Supplied(l.req.patientId)
               => /\ "FindPatientIDByIdentifier" \notin Ops(l)
                  /\ \A i \in DOMAIN l.calls :
                         l.calls[i].op \in SubjectOps
                         => l.calls[i].subject = SuppliedId(l.req.patientId)
            /\ (/\ ~Supplied(l.req.patientId)
                /\ Supplied(l.req.patientIdentifierSystem)
                /\ Supplied(l.req.patientIdentifierValue)
                /\ l.token # EmptyStr)
               => "FindPatientIDByIdentifier" \in Ops(l)
            /\ PatientSearched(l)
               => IF l.patientID = EmptyStr
                  THEN /\ l.pc = "done"
                       /\ l.response.status = "error"
                       /\ Ops(l) \cap SubjectOps = {}
                  ELSE /\ l.patientID \in PatientIds
                       /\ CallsOf(l, "CreateObservation") # {}
                       /\ \A i \in DOMAIN l.calls :
                              l.calls[i].op \in SubjectOps
                              => l.calls[i].subject = l.patientID

\* A high-risk submission without patientId succeeded on the patient found
\* by its identifier pair.
C16_Witness ==
    \E s \in Subs :
        /\ IsSuccess(sub[s])
        /\ ~Supplied(sub[s].req.patientId)
        /\ PatientSearched(sub[s])
        /\ sub[s].patientID = <<"p2">>
        /\ sub[s].flagId # EmptyStr

\* C17: every create request names a non-empty subject, which the form
\* supplied as patientId or an earlier patient search of the submission found.
C17_NoWriteBeforeSubject ==
    \A s \in Subs :
        LET l == sub[s]
        IN  \A i \in DOMAIN l.calls :
                l.calls[i].op \in CreateOps
                => /\ l.calls[i].subject # EmptyStr
                   /\ \/ Supplied(l.req.patientId)
                      \/ \E j \in 1..(i - 1) :
                             l.calls[j].op = "FindPatientIDByIdentifier"

\* The Observation request is out, on the patient the search has found.
C17_Witness ==
    \E s \in Subs :
        /\ sub[s].pc = "observation"
        /\ ~Supplied(sub[s].req.patientId)
        /\ sub[s].calls[Len(sub[s].calls) - 1].op = "FindPatientIDByIdentifier"
        /\ sub[s].calls[Len(sub[s].calls)].subject \in PatientIds

\* C18: a success response is the status, the Observation id the record
\* store assigned in this submission and the total of the answers, and
\* nothing else; it is the same whatever the Flag, the Communication and
\* the encounter lookups gave.
C18_SuccessReportsIdAndTotal ==
    \A s \in Subs :
        LET l == sub[s]
        IN  IsSuccess(l)
            => /\ l.observationId \in ObservationIds
               /\ l.response = [code |-> 200, status |-> "success", message |-> NoMsg,
                                observationId |-> l.observationId,
                                calculatedScore |-> AnswerSum(l.req.q)]
               /\ l.response.observationId \notin {l.flagId, l.commId, l.encID}

\* Success with a Flag, a Communication and an encounter, each with its id.
C18_Witness ==
    \E s \in Subs :
        /\ IsSuccess(sub[s])
        /\ sub[s].response.observationId = <<"o1">>
        /\ sub[s].flagId = <<"f1">>
        /\ sub[s].commId = <<"c1">>
        /\ sub[s].encID \in EncounterIds

\* The encounter id at hand when the Flag is sent: the one of the form, else
\* the one a lookup has found.
EncounterAtHand(l) ==
    IF Supplied(l.req.encounterId) THEN SuppliedId(l.req.encounterId) ELSE l.encID

\* The encounter lookups of l have returned.
CascadeOver(l) ==
    /\ l.observationId # EmptyStr
    /\ HighRiskAnswers(l.req.q)
    /\ l.pc \in {"flag", "communication", "done"}

\* C19: the Flag request carries an encounter reference exactly when an
\* encounter id is at hand, namely that id; without one the Flag is sent all
\* the same, on the subject alone.
C19_FlagEncounterIffAvailable ==
    \A s \in Subs :
        LET l == sub[s]
        IN  /\ CascadeOver(l) => CallsOf(l, "CreateFlag") # {}
            /\ \A i \in CallsOf(l, "CreateFlag") :
                   /\ l.calls[i].subject = l.patientID
                   /\ l.calls[i].subject # EmptyStr
                   /\ l.calls[i].hasEncounter <=> EncounterAtHand(l) # EmptyStr
                   /\ l.calls[i].encounter = EncounterAtHand(l)
                   /\ ~Supplied(l.req.encounterId) /\ l.calls[i].hasEncounter
                      => /\ l.calls[i].encounter \in EncounterIds
                         /\ \E j \in 1..(i - 1) : l.calls[j].op \in LookupOps

\* The Flag references the encounter that the subject-based lookup found
\* after the appointment lookup had failed.
C19_Witness ==
    \E s \in Subs :
        /\ LookupOps \subseteq Ops(sub[s])
        /\ ~Supplied(sub[s].req.encounterId)
        /\ \E i \in CallsOf(sub[s], "CreateFlag") :
               sub[s].calls[i].hasEncounter /\ sub[s].calls[i].encounter = <<"e2">>

Attempts(l, op) == Cardinality(CallsOf(l, op))

\* C20: once the Observation of a high-risk submission exists, the Flag and
\* the Communication are each requested once, the Communication after the
\* Flag has returned whatever it returned, and the response is the success
\* response whatever the two returned.
C20_AlertsOnceEachIndependent ==
    \A s \in Subs :
        LET l == sub[s]
        IN  /\ Attempts(l, "CreateFlag") <= 1
            /\ Attempts(l, "CreateCommunication") <= 1
            /\ \A i \in CallsOf(l, "CreateCommunication") :
                   \E j \in 1..(i - 1) : l.calls[j].op = "CreateFlag"
            /\ (CascadeOver(l) /\ l.pc # "flag")
               => /\ Attempts(l, "CreateFlag") = 1
                  /\ Attempts(l, "CreateCommunication") = 1
            /\ (CascadeOver(l) /\ l.pc = "done")
               => /\ IsSuccess(l)
                  /\ l.response.calculatedScore = l.totalScore
                  /\ l.err = ""

\* Success after the Flag failed and the Communication was created.
C20_Witness ==
    \E s \in Subs :
        /\ IsSuccess(sub[s])
        /\ Attempts(sub[s], "CreateFlag") = 1
        /\ sub[s].flagId = EmptyStr
        /\ sub[s].commId # EmptyStr

\* ------------------------------------------------------ cascade and order
\* The Observation of a high-risk submission without encounterId exists.
CascadeStarted(l) ==
    /\ l.observationId # EmptyStr
    /\ HighRiskAnswers(l.req.q)
    /\ ~Supplied(l.req.encounterId)

\* C21: without encounterId the appointment lookup comes first, and only for
\* a supplied appointmentId; the subject-based lookup is called only without
\* appointmentId or after the appointment lookup gave no encounter, never
\* after it gave one; when no lookup gives an encounter the Flag is still
\* sent and the response is success.
C21_EncounterCascade ==
    /\ [](\A s \in Subs :
            LET l == sub[s]
            IN  /\ Ops(l) \cap LookupOps # {} => CascadeStarted(l)
                /\ \A i \in CallsOf(l, "FindEncounterByAppointment") :
                       /\ Supplied(l.req.appointmentId)
                       /\ l.calls[i].arg = SuppliedId(l.req.appointmentId)
                       /\ l.calls[i - 1].op = "CreateObservation"
                /\ \A i \in CallsOf(l, "FindActiveEncounterID") :
                       l.calls[i - 1].op = IF Supplied(l.req.appointmentId)
                                           THEN "FindEncounterByAppointment"
                                           ELSE "CreateObservation"
                /\ CascadeStarted(l)
                   => IF Supplied(l.req.appointmentId)
                      THEN "FindEncounterByAppointment" \in Ops(l)
                      ELSE "FindActiveEncounterID" \in Ops(l)
                /\ (CascadeStarted(l) /\ l.encID = EmptyStr
                      /\ l.pc \in {"flag", "communication", "done"})
                   => /\ "FindActiveEncounterID" \in Ops(l)
                      /\ "CreateFlag" \in Ops(l)
                      /\ l.pc = "done" => IsSuccess(l))
    /\ [][\A s \in Subs :
            /\ (sub[s].pc = "appointment" /\ sub'[s].pc # "appointment")
               => IF sub'[s].encID # EmptyStr
                  THEN /\ sub'[s].pc = "flag"
                       /\ "FindActiveEncounterID" \notin Ops(sub'[s])
                  ELSE sub'[s].pc = "encounter"
            /\ (sub[s].pc = "encounter" /\ sub'[s].pc # "encounter")
               => sub'[s].pc = "flag"]_vars

\* The appointment lookup found the encounter and the subject-based lookup
\* was not called.
C21_Witness ==
    \E s \in Subs :
        /\ IsSuccess(sub[s])
        /\ CascadeStarted(sub[s])
        /\ "FindEncounterByAppointment" \in Ops(sub[s])
        /\ "FindActiveEncounterID" \notin Ops(sub[s])
        /\ sub[s].encID = <<"e1">>

\* The place of a remote operation in the order of the handler.
Rank(op) ==
    CASE op = "fetchNewToken" -> 1
      [] op = "FindPatientIDByIdentifier" -> 2
      [] op = "CreateObservation" -> 3
      [] op = "FindEncounterByAppointment" -> 4
      [] op = "FindActiveEncounterID" -> 5
      [] op = "CreateFlag" -> 6
      [] op = "CreateCommunication" -> 7

\* The operation a blocked handler waits for.
Awaited(pc) ==
    CASE pc = "fetch" -> "fetchNewToken"
      [] pc = "patient" -> "FindPatientIDByIdentifier"
      [] pc = "observation" -> "CreateObservation"
      [] pc = "appointment" -> "FindEncounterByAppointment"
      [] pc = "encounter" -> "FindActiveEncounterID"
      [] pc = "flag" -> "CreateFlag"
      [] pc = "communication" -> "CreateCommunication"

WaitingPcs == {"fetch", "patient", "observation", "appointment", "encounter",
               "flag", "communication"}

LastOp(l) == l.calls[Len(l.calls)].op

\* C22: the requests of a submission go out in the order of the handler,
\* none twice, after validation and scoring and one at a time: the one a
\* handler waits for is the last it sent; store requests carry the token
\* obtained before, create requests the subject resolved before, lookups
\* come after the Observation exists, the Communication after the Flag has
\* returned, and the response is written last.
C22_StepsInOrder ==
    \A s \in Subs :
        LET l == sub[s]
        IN  /\ \A i, j \in DOMAIN l.calls :
                   i < j => Rank(l.calls[i].op) < Rank(l.calls[j].op)
            /\ l.calls # <<>> => GoodAnswers(l) /\ l.totalScore = AnswerSum(l.req.q)
            /\ l.pc \in WaitingPcs => l.calls # <<>> /\ LastOp(l) = Awaited(l.pc)
            /\ \A i \in DOMAIN l.calls :
                   /\ Rank(l.calls[i].op) >= 2
                      => l.token # EmptyStr /\ l.calls[i].token = l.token
                   /\ Rank(l.calls[i].op) >= 3 => l.patientID # EmptyStr
                   /\ Rank(l.calls[i].op) >= 4 => l.observationId # EmptyStr
            /\ "CreateCommunication" \in Ops(l)
               => "CreateFlag" \in Ops(l) /\ l.pc \in {"communication", "done"}
            /\ l.response # NoResponse <=> l.pc = "done"
            /\ IsSuccess(l)
               => LastOp(l) = IF HighRiskAnswers(l.req.q) THEN "CreateCommunication"
                              ELSE "CreateObservation"

\* Success after all seven remote operations, in the order of the handler.
C22_Witness ==
    \E s \in Subs :
        /\ IsSuccess(sub[s])
        /\ Len(sub[s].calls) = 7
        /\ \A i \in 1..7 : Rank(sub[s].calls[i].op) = i

\* ------------------------------------------------------ exclusive path
Exclusive == {"recheck", "fetch"}

\* C23: at most one caller is on the path between Lock and Unlock of
\* fetchNewToken, the holder of the exclusive lock, with no reader inside,
\* so at most one token request is in flight and only its sender writes the
\* cache; a caller that gets the lock when a token is cached re-checks it and
\* returns it without a token request if it is valid.
C23_ExclusiveFetchPath ==
    /\ [](/\ Cardinality({s \in Subs : sub[s].pc \in Exclusive}) <= 1
          /\ \A s \in Subs : sub[s].pc \in Exclusive <=> writer = s
          /\ writer # 0 => readers = {})
    /\ [][/\ (token' # token \/ expiry' # expiry)
             => \E s \in Subs : writer = s /\ sub[s].pc = "fetch" /\ writer' = 0
          /\ \A s \in Subs :
                (LeavesRecheck(s) /\ token # EmptyStr)
                => IF now' < expiry - TokenBuffer
                   THEN /\ sub'[s].token = token
                        /\ "fetchNewToken" \notin Ops(sub'[s])
                        /\ UNCHANGED <<token, expiry, fetches>>
                        /\ writer' = 0
                   ELSE sub'[s].pc = "fetch" /\ writer' = s]_vars

\* A caller holds the exclusive lock, about to re-check, after another
\* caller's fetch has stored a token that is still valid.
C23_Witness ==
    \E s1, s2 \in Subs :
        /\ sub[s2].pc = "recheck"
        /\ writer = s2
        /\ FetchCount(sub[s1]) = 1
        /\ sub[s1].token = token
        /\ CacheFresh(now)

LeavesFetch(s) == sub[s].pc = "fetch" /\ sub'[s].pc # "fetch"

\* The answers of the identity service that C24 names as failures.
FetchFails(resp) ==
    \/ resp.neterr
    \/ resp.status # 200
    \/ ~resp.decodable
    \/ resp.access_token = EmptyStr

\* C24: a token request that meets a transport error, a status other than
\* 200, an undecodable body or an empty access token is an error of
\* fetchNewToken; the caller then gets the error and no token, sends no
\* second request, and the cached token and expiry stay as they were.
C24_FailedFetchLeavesCache ==
    /\ [](\A resp \in AuthResponses(1) : FetchFails(resp) => FetchResult(resp).err # "")
    /\ [][\A s \in Subs :
            LeavesFetch(s)
            => IF sub'[s].token = EmptyStr
               THEN /\ UNCHANGED <<token, expiry, fetches>>
                    /\ writer' = 0
                    /\ IsError(sub'[s], 500)
                    /\ FetchCount(sub'[s]) = 1
               ELSE /\ sub'[s].token = Token(fetches)
                    /\ token' = Token(fetches)]_vars

\* The token request of a second submission failed while the cache held the
\* expired token of the first: the token is still there.
C24_Witness ==
    \E s \in Subs :
        /\ fetches = 2
        /\ token = Token(1)
        /\ AuthFailed(sub[s])
        /\ IsError(sub[s], 500)

RemoteOps == StoreOps \cup {"fetchNewToken"}

\* The operation whose failure ended the submission.
FailedStep(l) ==
    IF l.err = "auth" THEN "fetchNewToken"
    ELSE IF "CreateObservation" \in Ops(l) THEN "CreateObservation"
    ELSE "FindPatientIDByIdentifier"

\* C25: a submission sends each remote operation at most once; a failure
\* that ends the submission ends it at the failed request, and a failed
\* Flag or Communication request is not sent again.
C25_NoRetry ==
    \A s \in Subs :
        LET l == sub[s]
        IN  /\ \A op \in RemoteOps : Attempts(l, op) <= 1
            /\ Len(l.calls) <= 7
            /\ l.err # ""
               => /\ l.pc = "done"
                  /\ l.response.status = "error"
                  /\ LastOp(l) = FailedStep(l)

\* Success after the Flag was created and the only Communication request
\* failed.
C25_Witness ==
    \E s \in Subs :
        /\ IsSuccess(sub[s])
        /\ Attempts(sub[s], "CreateCommunication") = 1
        /\ sub[s].flagId # EmptyStr
        /\ sub[s].commId = EmptyStr

\* ------------------------------------------------------ search resolvers
Returned(l) == l.pc = "returned"

\* The record store answered 200 with a bundle that decodes.
BundleReceived(r) == ~r.neterr /\ r.status = 200 /\ r.decodable

\* An entry whose resource decodes and has an id.
Usable(e) == e.decodable /\ e.id # EmptyStr

\* C26: both resolvers fail with "not found" on an empty bundle, with an id
\* error on a first entry without usable id and with a status error on a
\* status other than 200, three different errors, and return a non-empty id
\* exactly when they return no error.
C26_SearchOutcomes ==
    \A s \in Subs :
        LET l == sub[s]
        IN  Returned(l)
            => /\ (~l.reply.neterr /\ l.reply.status # 200) => l.result.err = "status"
               /\ (BundleReceived(l.reply) /\ l.reply.entry = <<>>)
                  => l.result.err = "not found"
               /\ (BundleReceived(l.reply) /\ l.reply.entry # <<>>
                     /\ ~Usable(l.reply.entry[1]))
                  => l.result.err \in {"id parse", "id missing"}
               /\ l.result.err = "" <=> l.result.id # EmptyStr

\* FindActiveEncounterID got a status 500 with a bundle that names an
\* encounter and returned the status error.
C26_Witness ==
    \E s \in Subs :
        /\ Returned(sub[s])
        /\ sub[s].op = "FindActiveEncounterID"
        /\ sub[s].reply.status = 500
        /\ sub[s].reply.entry # <<>>
        /\ Usable(sub[s].reply.entry[1])
        /\ sub[s].result.err = "status"

\* C27: of a bundle with one or more entries the resolvers look at the first
\* only: they return its id whatever follows, and fail if it has no usable
\* id even when a later entry has one.
C27_FirstEntryOnly ==
    \A s \in Subs :
        LET l == sub[s]
        IN  (Returned(l) /\ BundleReceived(l.reply) /\ Len(l.reply.entry) >= 1)
            => IF Usable(l.reply.entry[1])
               THEN l.result = Ok(l.reply.entry[1].id)
               ELSE l.result.err # "" /\ l.result.id = EmptyStr

\* FindPatientIDByIdentifier failed on a bundle whose second entry names a
\* patient and whose first has no id.
C27_Witness ==
    \E s \in Subs :
        /\ Returned(sub[s])
        /\ sub[s].op = "FindPatientIDByIdentifier"
        /\ BundleReceived(sub[s].reply)
        /\ Len(sub[s].reply.entry) = 2
        /\ ~Usable(sub[s].reply.entry[1])
        /\ sub[s].reply.entry[2].id = <<"p1">>
        /\ sub[s].result.err = "id missing"

\* C28: an encounter of the subject that is planned, arrived or in-progress
\* is found by FindActiveEncounterID when the record store answers its query
\* truthfully.
C28_PlannedArrivedInProgressFound ==
    \A s \in Subs :
        LET l == sub[s]
        IN  (/\ Returned(l)
             /\ l.op = "FindActiveEncounterID"
             /\ l.reply = Truthful(l.store)
             /\ l.store # <<>>
             /\ l.store[1].status \in {"planned", "arrived", "in-progress"})
            => l.result = Ok(l.store[1].id)

\* ------------------------------------------------------ shared state
\* C29: a step changes the locals of one submission at most, whose answers
\* and total it leaves as read from its request; the token and the expiry
\* are written by the submissions, each under the exclusive lock, and
\* nothing in the locals of a submission comes from another's request.
C29_OnlyCacheShared ==
    /\ [](\A s \in Subs :
            LET l == sub[s]
            IN  /\ l.totalScore = AnswerSum(l.req.q)
                /\ l.patientID = SuppliedId(l.req.patientId)
                /\ l.encID = SuppliedId(l.req.encounterId)
                /\ \A i \in DOMAIN l.calls :
                       l.calls[i].op \in CreateOps
                       => l.calls[i].value = AnswerSum(l.req.q)
                /\ IsSuccess(l) => l.response.calculatedScore = AnswerSum(l.req.q))
    /\ [][/\ \A s1, s2 \in Subs :
                (s1 # s2 /\ sub'[s1] # sub[s1]) => sub'[s2] = sub[s2]
          /\ \A s \in Subs : sub'[s].req = sub[s].req
          /\ (token' # token \/ expiry' # expiry)
             => \E s \in Subs : sub[s].pc = "fetch" /\ sub'[s] # sub[s]]_vars

\* Two submissions with different totals have both written the cache, and
\* one has its success response while the other waits for its Observation.
C29_Witness ==
    \E s1, s2 \in Subs :
        /\ FetchCount(sub[s1]) = 1
        /\ FetchCount(sub[s2]) = 1
        /\ sub[s1].token # sub[s2].token
        /\ sub[s2].token = token
        /\ IsSuccess(sub[s1])
        /\ sub[s1].totalScore = 12
        /\ sub[s2].pc = "observation"
        /\ sub[s2].totalScore = 13

InGetAuthToken == {"rlock", "check", "lock", "recheck", "fetch"}

\* C30: a caller holds the shared lock only during the check and nothing
\* while it waits for the exclusive lock, which is held only from Lock to
\* the return of fetchNewToken; every caller of GetAuthToken leaves it, with
\* a token or with the error that ends its submission.
C30_GetAuthTokenReturns ==
    /\ [](\A s \in Subs :
            /\ s \in readers <=> sub[s].pc = "check"
            /\ sub[s].pc = "lock" => writer # s
            /\ sub[s].pc \notin InGetAuthToken
               => writer # s /\ (sub[s].token # EmptyStr \/ AuthFailed(sub[s])))
    /\ \A s \in Subs :
           (sub[s].pc \in InGetAuthToken) ~> (sub[s].pc \notin InGetAuthToken)

\* Every caller has left GetAuthToken, one with an error and one with a
\* token, and the mutex is free.
C30_Witness ==
    /\ \A s \in Subs : sub[s].pc \notin InGetAuthToken
    /\ \E s \in Subs : AuthFailed(sub[s])
    /\ \E s \in Subs : sub[s].token # EmptyStr
    /\ readers = {}
    /\ writer = 0

\* ------------------------------------------------------ one response
\* C31: a POST submission gets its response, a success or an error, once
\* every remote call returns; the response once written is not written
\* again and no request is sent after it.
C31_ExactlyOneResponse ==
    /\ [](\A s \in Subs :
            /\ sub[s].response # NoResponse <=> sub[s].pc = "done"
            /\ (sub[s].pc = "done" /\ sub[s].req.method = "POST")
               => sub[s].response.status \in {"success", "error"})
    /\ [][\A s \in Subs :
            sub[s].response # NoResponse
            => /\ sub'[s].response = sub[s].response
               /\ sub'[s].calls = sub[s].calls]_vars
    /\ \A s \in Subs : (sub[s].req.method = "POST") ~> (sub[s].pc = "done")

\* A high-risk submission got its success response after six requests.
C31_Witness ==
    \E s \in Subs :
        /\ IsSuccess(sub[s])
        /\ Len(sub[s].calls) = 6
        /\ LastOp(sub[s]) = "CreateCommunication"
        /\ sub[s].response.observationId = <<"o1">>

\* ------------------------------------------------------ validation order
Missing(v) == v = EmptyStr

NotInteger(v) == v \in {<<"x">>, <<"1", "x">>}

\* The message of the first test that the value v of a field fails.
FirstFailure(v) ==
    IF Missing(v) THEN "Invalid input: %s is required"
    ELSE IF NotInteger(v) THEN "Invalid input: %s must be an integer"
    ELSE "Invalid input: %s score must be between 0 and 3"

\* The questions of l without a good answer.
BadQuestions(l) == {i \in Questions : ~GoodAnswer(l.req.q[i])}

\* C35: the error response of a submission with invalid answers names the
\* lowest-numbered invalid question, with the message of the first of the
\* tests missing, integer, range that its value fails.
C35_FirstInvalidQuestion ==
    \A s \in Subs :
        LET l == sub[s]
        IN  (Submitted(l) /\ BadQuestions(l) # {})
            => LET first == CHOOSE i \in BadQuestions(l) :
                                \A j \in BadQuestions(l) : i <= j
               IN  /\ IsError(l, 400)
                   /\ l.response.message.field = first
                   /\ l.response.message.text = FirstFailure(l.req.q[first])

\* q3 is not a number and q7 is missing: the response asks for an integer q3.
C35_Witness ==
    \E s \in Subs :
        /\ Submitted(sub[s])
        /\ sub[s].req.q[3] = <<"x">>
        /\ sub[s].req.q[7] = EmptyStr
        /\ sub[s].response.message = Msg("Invalid input: %s must be an integer", 3)

\* ------------------------------------------------------ token of a submission
\* C32: a submission is in GetAuthToken once; the token it got is the token
\* of every request it sends to the record store and stays its token,
\* whatever the cache holds by then.
C32_OneTokenPerSubmission ==
    /\ [](\A s \in Subs :
            LET l == sub[s]
            IN  /\ FetchCount(l) <= 1
                /\ \A i \in DOMAIN l.calls :
                       l.calls[i].op \in StoreOps
                       => l.calls[i].token = l.token /\ l.token # EmptyStr)
    /\ [][\A s \in Subs :
            sub[s].pc \notin InGetAuthToken
            => /\ sub'[s].pc \notin InGetAuthToken
               /\ sub'[s].token = sub[s].token
               /\ FetchCount(sub'[s]) = FetchCount(sub[s])]_vars

\* A submission has sent its Communication with the first token after
\* another submission has put a second token in the cache.
C32_Witness ==
    \E s \in Subs :
        /\ "CreateCommunication" \in Ops(sub[s])
        /\ sub[s].token = Token(1)
        /\ token = Token(2)
        /\ \A i \in DOMAIN sub[s].calls :
               sub[s].calls[i].op \in StoreOps => sub[s].calls[i].token = Token(1)

\* The cached token has no more than the lead time left.
Unservable == token # EmptyStr /\ expiry - TokenBuffer <= now

\* C33: a token stored with a lifetime of at most 5 minutes goes to the
\* caller that fetched it and is unservable from then on; an unservable
\* token stays so until it is replaced, and a caller that checks or
\* re-checks it goes on to the exclusive lock and to a fetch of its own.
C33_ShortLivedNeverServed ==
    [][/\ \A s \in Subs :
            /\ (LeavesFetch(s) /\ token' # token /\ expiry' - now' <= 5)
               => /\ sub'[s].token = token'
                  /\ token' # EmptyStr
                  /\ Unservable'
            /\ (Unservable /\ LeavesCheck(s)) => sub'[s].pc = "lock"
            /\ (Unservable /\ LeavesRecheck(s))
               => /\ sub'[s].pc = "fetch"
                  /\ fetches' = fetches + 1
                  /\ sub'[s].token = EmptyStr
       /\ (Unservable /\ token' = token) => Unservable']_vars

\* Without the clock moving, the second caller has fetched a token of its
\* own after the first had stored one that lives 5 minutes.
C33_Witness ==
    \E s1, s2 \in Subs :
        /\ now = 0
        /\ fetches = 2
        /\ sub[s1].token = Token(1)
        /\ sub[s2].token = Token(2)
        /\ FetchCount(sub[s2]) = 1

\* C34: token and expiry change in one step of the caller that holds the
\* exclusive lock, with no reader inside, at the return of its token request:
\* the token becomes the non-empty one of that request and the expiry the
\* instant of the store plus its lifetime; a stored token is never replaced
\* by the empty one, and a reader is never inside together with a writer.
C34_CacheWrittenUnderLock ==
    /\ [](/\ token = EmptyStr <=> expiry = 0
          /\ readers # {} => writer = 0)
    /\ [][/\ (token' # token \/ expiry' # expiry)
             => \E s \in Subs :
                    /\ sub[s].pc = "fetch"
                    /\ writer = s
                    /\ readers = {}
                    /\ token' = Token(fetches)
                    /\ token' # token
                    /\ sub'[s].token = token'
                    /\ (expiry' - now') \in ExpiresInChoices
          /\ token # EmptyStr => token' # EmptyStr]_vars

\* A reader is inside while the cache holds the token and expiry of the
\* first fetch.
C34_Witness ==
    /\ readers # {}
    /\ fetches = 1
    /\ token = Token(1)
    /\ (expiry - now) \in ExpiresInChoices

====
